---- MODULE Spec2Model ----
(***************************************************************************)
(* Configuration discovery, decoding, layering and assembly of the native  *)
(* client (src/nativeclient/src).                                          *)
(*                                                                         *)
(* Paths are sequences of components.  An absolute path starts with the    *)
(* component "/", a path written with the global-root marker starts with   *)
(* the component "//", every other path is relative.  Option<T> is a       *)
(* sequence of length 0 (None) or 1 (Some).                                *)
(***************************************************************************)
EXTENDS Integers, Sequences, FiniteSets, TLC

VARIABLES
    pc,             \* position of the harness / of create_configuration
    fs,             \* the configuration files on disk: path -> kind
    cwd,            \* the working directory of the process
    base,           \* discovery: the directory the search starts from
    target,         \* discovery: the file name searched for
    stop,           \* discovery: stop_search_after
    parent_result,  \* discovery: result of find_parent_directory_containing_file
    found_root,     \* result of find_global_and_local_root
    merge_base,     \* merge: the lower layer
    merge_overwrite,\* merge: the upper layer
    merged,         \* merge: result of merge_partial_configurations
    contents,       \* decoding: the text handed to from_string
    decoded,        \* decoding: result of from_string
    arguments,      \* create_configuration: the command arguments
    base_directory, \* create_configuration: its second parameter
    search_base,    \* create_configuration: where discovery starts
    command_argument_configuration, \* the command-line layer, expanded
    partial_configuration,          \* the layers merged so far
    project_root,
    relative_local_root,
    global_contents,\* what reading the global configuration file gave
    local_contents, \* what reading the local configuration file gave
    files_read,     \* the configuration files read, in order
    returned,       \* what create_configuration returned
    checker,        \* check: what the checker binary does (stdout, status)
    child,          \* check: the child process (state, stdout written)
    invocations,    \* check: number of checker processes spawned
    output,         \* check: what wait_with_output returned
    parsed,         \* check: the text handed to parse_type_error_response
    check_returned, \* check: what check_command returned
    expand_root,    \* expansion: the root of the first expansion
    second_root,    \* expansion: the root of the second expansion
    expand_input,   \* expansion: the path to expand
    expand_partial, \* expansion: the partial configuration to expand
    expand_result,  \* expansion: result of expand_relative_path
    re_expand_result, \* expansion: result of expanding the result again
    global_expanded,\* expansion: result of expand_global_root
    partial_expanded,   \* expansion: result of expand_relative_paths
    partial_re_expanded \* expansion: result of expanding that result again

find_vars == <<base, target, stop, parent_result>>
merge_vars == <<merge_base, merge_overwrite, merged>>
decode_vars == <<contents, decoded>>
create_vars == <<arguments, base_directory, search_base,
                 command_argument_configuration, partial_configuration,
                 project_root, relative_local_root, global_contents,
                 local_contents, files_read, returned>>
check_vars == <<checker, child, invocations, output, parsed, check_returned>>
expand_vars == <<expand_root, second_root, expand_input, expand_partial,
                 expand_result, re_expand_result, global_expanded,
                 partial_expanded,
                 partial_re_expanded>>
vars == <<pc, fs, cwd, base, target, stop, parent_result, found_root,
          merge_base, merge_overwrite, merged, contents, decoded,
          arguments, base_directory, search_base,
          command_argument_configuration, partial_configuration,
          project_root, relative_local_root, global_contents,
          local_contents, files_read, returned,
          checker, child, invocations, output, parsed, check_returned,
          expand_root, second_root, expand_input, expand_partial,
          expand_result, re_expand_result, global_expanded, partial_expanded,
          partial_re_expanded>>

----------------------------------------------------------------------------
(* Bounds of the model *)

\* depth of the deepest directory of the modelled tree (/a/b/c has depth 3)
MaxDepth == 3
\* number of configuration-file entries the environment creates on disk
MaxEntries == 3
\* number of keys of a document handed to from_string
MaxKeys == 2
\* number of tokens the checker writes to its standard output
MaxOutput == 5
\* number of components of a path handed to the expansion functions
MaxPathLen == 2

----------------------------------------------------------------------------
(* Option<T> *)

None == <<>>
Some(x) == <<x>>
IsSome(o) == Len(o) = 1
IsNone(o) == Len(o) = 0
Unwrap(o) == o[1]

----------------------------------------------------------------------------
(* Paths and the file system *)

CONFIGURATION_FILE == ".pyre_configuration"
LOCAL_CONFIGURATION_FILE == ".pyre_configuration.local"
LOG_DIRECTORY == ".pyre"

ConfigNames == {CONFIGURATION_FILE, LOCAL_CONFIGURATION_FILE}

LevelNames == <<"a", "b", "c", "d", "e", "f">>
RootDir == <<"/">>
Deepest == RootDir \o SubSeq(LevelNames, 1, MaxDepth)
\* the directories of the modelled tree: /, /a, /a/b, ...
Dirs == {SubSeq(Deepest, 1, k) : k \in 1..(MaxDepth + 1)}
\* a directory outside that chain, holding no configuration file
Outside == RootDir \o <<"x">>
SearchBases == Dirs \cup {Outside}

\* the paths at which a configuration file may exist
ConfigPaths == {d \o <<f>> : d \in Dirs, f \in ConfigNames}

\* what a path is on disk: nothing, a regular file, a directory, or an entry
\* whose metadata cannot be read (no permission on a parent directory)
Kinds == {"absent", "file", "dir", "denied"}

\* Path::is_absolute
IsAbsolute(p) == Len(p) > 0 /\ p[1] \in {"/", "//"}

\* Path::join / PathBuf::push: an absolute right-hand side replaces the left
Join(p, q) == IF IsAbsolute(q) THEN q ELSE p \o q

\* Path::ancestors: the path itself, then its parent, ... down to the root
Ancestors(p) == [i \in 1..Len(p) |-> SubSeq(p, 1, Len(p) - i + 1)]

\* Vec::contains
Contains(s, x) == \E i \in 1..Len(s) : s[i] = x

\* Path::is_file: true only for an existing regular file whose metadata can
\* be read; every error is reported as false
is_file(p) == p \in DOMAIN fs /\ fs[p] = "file"

----------------------------------------------------------------------------
(* Directory discovery: find_directories.rs *)

RECURSIVE _find_parent_directory_containing(_, _, _, _)
\* the for loop over Path::new(base).ancestors().enumerate(); ancs is the
\* sequence of ancestors and i - 1 the enumerate index of the candidate.
\* The predicate argument is is_file at its only call site.
_find_parent_directory_containing(ancs, i, tgt, stop_search_after) ==
    IF i > Len(ancs) THEN None
    ELSE IF is_file(Join(ancs[i], <<tgt>>)) THEN Some(ancs[i])
    ELSE IF IsSome(stop_search_after) /\ (i - 1) >= Unwrap(stop_search_after)
         THEN None
    ELSE _find_parent_directory_containing(ancs, i + 1, tgt, stop_search_after)

\* faulty variant: the bound is compared before the candidate is counted
FindParentStopsLate(b, tgt, stop_search_after) ==
    _find_parent_directory_containing(Ancestors(b), 1, tgt,
             IF IsSome(stop_search_after)
             THEN Some(Unwrap(stop_search_after) + 1) ELSE None)

find_parent_directory_containing_file(b, tgt, stop_search_after) ==
    _find_parent_directory_containing(Ancestors(b), 1, tgt, stop_search_after)

\* faulty variant: the global root itself is not counted among its ancestors
FindRootsKeepsSameDirectory(b) ==
    LET g == find_parent_directory_containing_file(b, CONFIGURATION_FILE, None)
        l == find_parent_directory_containing_file(b, LOCAL_CONFIGURATION_FILE, None)
    IN  IF IsNone(g) THEN None
        ELSE IF IsNone(l) THEN Some([global_root |-> Unwrap(g), local_root |-> None])
        ELSE IF Contains(Tail(Ancestors(Unwrap(g))), Unwrap(l))
             THEN Some([global_root |-> Unwrap(g), local_root |-> None])
        ELSE Some([global_root |-> Unwrap(g), local_root |-> l])

\* faulty variant: the farthest global configuration is taken, not the nearest
FindRootsTakesFarthestGlobal(b) ==
    LET ancs == Ancestors(b)
        rev == [i \in 1..Len(ancs) |-> ancs[Len(ancs) - i + 1]]
        g == _find_parent_directory_containing(rev, 1, CONFIGURATION_FILE, None)
        l == find_parent_directory_containing_file(b, LOCAL_CONFIGURATION_FILE, None)
    IN  IF IsNone(g) THEN None
        ELSE IF IsNone(l) THEN Some([global_root |-> Unwrap(g), local_root |-> None])
        ELSE IF Contains(Ancestors(Unwrap(g)), Unwrap(l))
             THEN Some([global_root |-> Unwrap(g), local_root |-> None])
        ELSE Some([global_root |-> Unwrap(g), local_root |-> l])

\* faulty variant: without a global configuration the local one stands in for it
FindRootsFallsBackToLocal(b) ==
    LET g == find_parent_directory_containing_file(b, CONFIGURATION_FILE, None)
        l == find_parent_directory_containing_file(b, LOCAL_CONFIGURATION_FILE, None)
    IN  IF IsNone(g)
        THEN (IF IsNone(l) THEN None
              ELSE Some([global_root |-> Unwrap(l), local_root |-> None]))
        ELSE IF IsNone(l) THEN Some([global_root |-> Unwrap(g), local_root |-> None])
        ELSE IF Contains(Ancestors(Unwrap(g)), Unwrap(l))
             THEN Some([global_root |-> Unwrap(g), local_root |-> None])
        ELSE Some([global_root |-> Unwrap(g), local_root |-> l])

\* Option<FoundRoot>; `?` on the global search returns None at once
find_global_and_local_root(b) ==
    LET found_global_root ==
            find_parent_directory_containing_file(b, CONFIGURATION_FILE, None)
        found_local_root ==
            find_parent_directory_containing_file(b, LOCAL_CONFIGURATION_FILE, None)
    IN  IF IsNone(found_global_root) THEN None
        ELSE IF IsNone(found_local_root)
             THEN Some([global_root |-> Unwrap(found_global_root),
                        local_root |-> None])
        ELSE IF Contains(Ancestors(Unwrap(found_global_root)),
                         Unwrap(found_local_root))
             THEN Some([global_root |-> Unwrap(found_global_root),
                        local_root |-> None])
        ELSE Some([global_root |-> Unwrap(found_global_root),
                   local_root |-> found_local_root])

----------------------------------------------------------------------------
(* JSON values of a configuration document.  A string is held as the        *)
(* sequence of its path components, so that "bin" is <<"bin">>.             *)

Item(t, str, n, b) == [type |-> t, s |-> str, n |-> n, b |-> b]
JValue(t, str, n, b, items) ==
    [type |-> t, s |-> str, n |-> n, b |-> b, items |-> items]
JNull == JValue("null", <<>>, 0, FALSE, <<>>)
JStr(str) == JValue("str", str, 0, FALSE, <<>>)
JInt(n) == JValue("int", <<>>, n, FALSE, <<>>)
JBool(b) == JValue("bool", <<>>, 0, b, <<>>)
\* a list of items, and a dict given by its values
JList(items) == JValue("list", <<>>, 0, FALSE, items)
JDict(items) == JValue("dict", <<>>, 0, FALSE, items)

----------------------------------------------------------------------------
(* Results: Ok(value) or a failure.  A failure is an Err returned to the    *)
(* caller (`return Err`, `?`) or the abort of an `expect`; both end the     *)
(* resolution, the cause says which.                                        *)

NoError == [cause |-> "none", field |-> "", expected |-> "", actual |-> JNull]
Ok(v) == [ok |-> TRUE, value |-> v, error |-> NoError]
Failure(v, e) == [ok |-> FALSE, value |-> v, error |-> e]

----------------------------------------------------------------------------
(* Path expansion: filesystem.rs, search_path.rs *)

\* a path through a component of this name does not exist on disk
MissingName == "missing"
PathExists(p) == \A i \in 1..Len(p) : p[i] # MissingName

\* Path::canonicalize: an absolute path ("//x" is "/x") stays, a relative one
\* is resolved against the working directory of the process; a path that
\* does not exist cannot be canonicalized (None)
\* (its "." components are dropped and each ".." drops the component before)
RECURSIVE Normalize(_, _)
Normalize(resolved, rest) ==
    IF rest = <<>> THEN resolved
    ELSE IF Head(rest) = "." THEN Normalize(resolved, Tail(rest))
    ELSE IF Head(rest) = ".."
         THEN Normalize(IF Len(resolved) > 1
                        THEN SubSeq(resolved, 1, Len(resolved) - 1)
                        ELSE resolved, Tail(rest))
    ELSE Normalize(Append(resolved, Head(rest)), Tail(rest))

Canonicalize(p) ==
    LET abs == IF IsAbsolute(p) THEN RootDir \o Tail(p) ELSE cwd \o p
    IN  IF PathExists(abs) THEN Some(Normalize(RootDir, Tail(abs))) ELSE None

\* starts_with("//")
StartsWithGlobalMarker(p) == Len(p) > 0 /\ p[1] = "//"

\* faulty variant: root is joined in front of every path, absolute or not
ExpandJoinsRootAlways(root, path) ==
    IF ~PathExists(path) THEN None
    ELSE Some(Normalize(RootDir,
                        Tail(root) \o (IF IsAbsolute(path) THEN Tail(path) ELSE path)))

\* expand_relative_path(root, path): canonicalize(path) is taken of `path`
\* alone, so root does not enter; the result of canonicalize is absolute and
\* the else branch is never taken.  None stands for the failed `expect`.
expand_relative_path(root, path) ==
    LET expanded_path == Canonicalize(path)
    IN  IF IsNone(expanded_path) THEN None
        ELSE IF IsAbsolute(Unwrap(expanded_path)) THEN expanded_path
        ELSE Some(Join(path, Unwrap(expanded_path)))

\* expand_global_root(path, global_root): &path[2..] is the path without
\* its marker
expand_global_root(path, global_root) ==
    IF StartsWithGlobalMarker(path)
    THEN expand_relative_path(global_root, Tail(path))
    ELSE Some(path)

\* _expand_relative_root / SimpleRawElement::expand_relative_root
expand_relative_root(path, relative_root) ==
    IF ~StartsWithGlobalMarker(path)
    THEN expand_relative_path(relative_root, path)
    ELSE Some(path)

----------------------------------------------------------------------------
(* PartialConfiguration: configuration.rs.  The Option-typed fields         *)
(* modelled are binary, buck_mode, number_of_workers, source_directories,   *)
(* strict and targets.                                                      *)

OptionFields ==
    {"binary", "buck_mode", "number_of_workers", "source_directories",
     "strict", "targets"}

\* PartialConfiguration::default()
DefaultPartial ==
    [binary |-> None, buck_mode |-> None, number_of_workers |-> None,
     source_directories |-> None, strict |-> None, targets |-> None]

\* the mode from_json yields for an absent value (platform_aware is not part
\* of the sources at hand)
NoMode == <<>>

\* the mode a dict of modes stands for
PlatformAwareMode == <<"platform-aware">>

\* platform_aware::from_json: an absent value stays absent, a string is the
\* mode itself, a dict a platform-aware mode
from_json(value) ==
    IF IsNone(value) THEN None
    ELSE IF Unwrap(value).type = "str" THEN Some(Unwrap(value).s)
    ELSE Some(PlatformAwareMode)

\* PartialConfiguration::from_command_arguments
from_command_arguments(args) ==
    [binary |-> args.binary,
     \* Some(from_json(args.buck_mode, "buck_mode")): always Some
     buck_mode |->
        LET given == IF IsSome(args.buck_mode)
                     THEN Some(JStr(Unwrap(args.buck_mode))) ELSE None
            mode == from_json(given)
        IN  Some(IF IsSome(mode) THEN Unwrap(mode) ELSE NoMode),
     number_of_workers |-> args.number_of_workers,
     \* Some(source_directories): always Some, also for an empty list
     source_directories |-> Some(args.source_directories),
     strict |-> IF args.strict THEN Some(TRUE) ELSE None,
     targets |-> IF Len(args.targets) > 0
                 THEN Some(args.targets) ELSE None]

\* every expansion of a list succeeded
AllSome(os) == \A i \in 1..Len(os) : IsSome(os[i])

\* PartialConfiguration::expand_relative_paths, on the modelled fields:
\* binary by expand_relative_path, source_directories by
\* expand_relative_root, the others copied
expand_relative_paths(self, root) ==
    LET binary ==
            IF IsSome(self.binary)
            THEN expand_relative_path(root, Unwrap(self.binary))
            ELSE Some(<<>>)
        source_directories ==
            IF IsSome(self.source_directories)
            THEN [i \in 1..Len(Unwrap(self.source_directories)) |->
                    expand_relative_root(Unwrap(self.source_directories)[i], root)]
            ELSE <<>>
    IN  IF IsNone(binary) \/ ~AllSome(source_directories)
        THEN Failure(DefaultPartial,
                     [NoError EXCEPT !.cause = "canonicalize"])
        ELSE Ok([self EXCEPT
                    !.binary = IF IsSome(self.binary) THEN binary ELSE None,
                    !.source_directories =
                        IF IsSome(self.source_directories)
                        THEN Some([i \in 1..Len(source_directories) |->
                                      Unwrap(source_directories[i])])
                        ELSE None])

\* the per-field rule of PartialConfiguration::merge
overwrite_base(base_value, override_value) ==
    IF IsSome(override_value) THEN override_value ELSE base_value

\* PartialConfiguration::merge
merge(base_configuration, overwrite) ==
    [f \in OptionFields |-> overwrite_base(base_configuration[f], overwrite[f])]

\* faulty variant: the two layers are passed the wrong way round
MergeSwapped(base_configuration, overwrite) ==
    merge(overwrite, base_configuration)

merge_partial_configurations(base_configuration, overwrite) ==
    merge(base_configuration, overwrite)

----------------------------------------------------------------------------
(* Decoding a document: PartialConfiguration::from_string and its helpers.  *)
(* json is the key/value map of the document; json.pop(name, default) is    *)
(* the value under name, or the default when the key is absent.             *)

HasKey(json, name) == name \in DOMAIN json

TypeError(name, expected_type, result) ==
    [cause |-> "type", field |-> name, expected |-> expected_type,
     actual |-> result]

\* the body is a stub: it answers false for every value
is_list_of_string(elements) == FALSE

\* absent: None; of the expected type: Some(result); otherwise Err with the
\* message naming the field, the expected type and the value
ensure_option_type(json, name, expected_type) ==
    IF ~HasKey(json, name) THEN Ok(None)
    ELSE IF json[name].type = expected_type THEN Ok(Some(json[name]))
    ELSE Failure(None, TypeError(name, expected_type, json[name]))

\* a string or a dict is returned as it is (for a dict with a value that is
\* no string the message is built and dropped); for any other value the
\* message is built and dropped and the function ends without a value
ensure_optional_string_or_string_dict(json, name) ==
    IF ~HasKey(json, name) THEN Ok(None)
    ELSE IF json[name].type = "str" THEN Ok(Some(json[name]))
    ELSE IF json[name].type = "dict" THEN Ok(Some(json[name]))
    ELSE Ok(None)

\* for a value that is_list_of_string rejects the message is built and
\* dropped and the function ends without a value
ensure_optional_string_list(json, name) ==
    IF ~HasKey(json, name) THEN Ok(None)
    ELSE IF is_list_of_string(json[name]) THEN Ok(Some(json[name]))
    ELSE Ok(None)

\* the text of the message, as the value the function ends with
MessageValue(name) == JStr(<<"expected a list", name>>)

\* for a value that is_list_of_string rejects the message is the value of
\* the function (its last expression); no error is raised
ensure_string_list(json, name, allow_single_string) ==
    LET popped == IF HasKey(json, name) THEN json[name] ELSE JList(<<>>)
        result == IF allow_single_string /\ popped.type = "str"
                  THEN JList(<<Item("str", popped.s, 0, FALSE)>>)
                  ELSE popped
    IN  IF is_list_of_string(result) THEN Ok(result)
        ELSE Ok(MessageValue(name))

\* for a value that is no list the message is the value of the function
ensure_list(json, name) ==
    LET result == IF HasKey(json, name) THEN json[name] ELSE JList(<<>>)
    IN  IF result.type = "list" THEN Ok(result)
        ELSE Ok(MessageValue(name))

\* the source directories of a document: an optional list of path strings
source_directories_of(json) ==
    IF ~HasKey(json, "source_directories") THEN Ok(None)
    ELSE IF json["source_directories"].type = "list"
            /\ \A i \in 1..Len(json["source_directories"].items) :
                    json["source_directories"].items[i].type = "str"
         THEN Ok(Some([i \in 1..Len(json["source_directories"].items) |->
                          json["source_directories"].items[i].s]))
    ELSE Failure(None, TypeError("source_directories", "list",
                                 json["source_directories"]))

\* keys from_string consumes for the fields it decodes
RecognizedKeys ==
    {"binary", "buck_mode", "do_not_ignore_errors_in", "exclude", "extensions",
     "ignore_all_errors", "isolation_prefix", "logger", "workers", "oncall",
     "critical_files", "pysa_version", "site_roots", "source_directories",
     "strict", "taint_models_path", "targets", "typeshed", "use_buck2",
     "version"}

\* PartialConfiguration::_get_depreacted_map
DeprecatedMap == [do_not_check |-> "ignore_all_errors"]

\* PartialConfiguration::_get_extra_keys
ExtraKeys ==
    {"create_open_source_configuration", "saved_state", "stable_client",
     "taint_models_path", "unstable_client"}

\* faulty variant: the deprecated key is reported but not popped, so the
\* second loop reports it again as unrecognized
DiagnosticsKeepsDeprecated(json) ==
    LET remaining == DOMAIN json \ RecognizedKeys
        deprecated == remaining \cap DOMAIN DeprecatedMap
    IN  {<<"deprecated", k, DeprecatedMap[k]>> : k \in deprecated}
        \cup {<<"unrecognized", k, "">> : k \in remaining \ ExtraKeys}

\* faulty variant: the allow-list is not consulted
DiagnosticsIgnoresExtraKeys(json) ==
    LET remaining == DOMAIN json \ RecognizedKeys
        deprecated == remaining \cap DOMAIN DeprecatedMap
    IN  {<<"deprecated", k, DeprecatedMap[k]>> : k \in deprecated}
        \cup {<<"unrecognized", k, "">> : k \in remaining \ deprecated}

\* the diagnostics printed after the fields are decoded
Diagnostics(json) ==
    LET remaining == DOMAIN json \ RecognizedKeys
        deprecated == remaining \cap DOMAIN DeprecatedMap
    IN  {<<"deprecated", k, DeprecatedMap[k]>> : k \in deprecated}
        \cup {<<"unrecognized", k, "">> : k \in (remaining \ deprecated) \ ExtraKeys}

\* what a decoding that failed leaves: nothing decoded, nothing printed
EmptyDecoded ==
    [partial |-> DefaultPartial, ignore_all_errors |-> JList(<<>>),
     diagnostics |-> {}]

\* a text that serde_json cannot parse
Malformed == [malformed |-> TRUE, json |-> <<>>]
Document(json) == [malformed |-> FALSE, json |-> json]

\* the smallest index at which a check failed
FirstFailed(checks) ==
    CHOOSE i \in 1..Len(checks) :
        /\ ~checks[i].ok
        /\ \A j \in 1..(i - 1) : checks[j].ok

\* PartialConfiguration::from_string: the fields in the order of the struct
\* literal; the first Err ends the decoding.  The value is the partial
\* configuration and the diagnostics printed.
from_string(text) ==
    IF text.malformed
    THEN Failure(EmptyDecoded,
                 [NoError EXCEPT !.cause = "json"])
    ELSE
    LET json == text.json
        binary == ensure_option_type(json, "binary", "str")
        buck_mode == ensure_optional_string_or_string_dict(json, "buck_mode")
        extensions == ensure_list(json, "extensions")
        ignore_all_errors == ensure_string_list(json, "ignore_all_errors", FALSE)
        number_of_workers == ensure_option_type(json, "workers", "int")
        site_roots == ensure_optional_string_list(json, "site_roots")
        source_directories == source_directories_of(json)
        strict == ensure_option_type(json, "strict", "bool")
        targets == ensure_optional_string_list(json, "targets")
        checks == <<[ok |-> binary.ok, error |-> binary.error],
                    [ok |-> buck_mode.ok, error |-> buck_mode.error],
                    [ok |-> extensions.ok, error |-> extensions.error],
                    [ok |-> ignore_all_errors.ok, error |-> ignore_all_errors.error],
                    [ok |-> number_of_workers.ok, error |-> number_of_workers.error],
                    [ok |-> site_roots.ok, error |-> site_roots.error],
                    [ok |-> source_directories.ok, error |-> source_directories.error],
                    [ok |-> strict.ok, error |-> strict.error],
                    [ok |-> targets.ok, error |-> targets.error]>>
    IN  IF \E i \in 1..Len(checks) : ~checks[i].ok
        THEN Failure(EmptyDecoded,
                     checks[FirstFailed(checks)].error)
        ELSE Ok([partial |->
                    [binary |-> IF IsSome(binary.value)
                                THEN Some(Unwrap(binary.value).s) ELSE None,
                     buck_mode |-> from_json(buck_mode.value),
                     number_of_workers |->
                                IF IsSome(number_of_workers.value)
                                THEN Some(Unwrap(number_of_workers.value).n)
                                ELSE None,
                     source_directories |-> source_directories.value,
                     strict |-> IF IsSome(strict.value)
                                THEN Some(Unwrap(strict.value).b) ELSE None,
                     targets |-> IF IsSome(targets.value)
                                 THEN Some([i \in 1..Len(Unwrap(targets.value).items) |->
                                              Unwrap(targets.value).items[i].s])
                                 ELSE None],
                 \* a list field outside the subset that is merged
                 ignore_all_errors |-> ignore_all_errors.value,
                 diagnostics |-> Diagnostics(json)])

----------------------------------------------------------------------------
(* Assembly: Configuration::from_partial_configuration, create_configuration *)

\* what fs::open(path).read_text() gives: an I/O error or the text
Unreadable == [readable |-> FALSE, text |-> Malformed]
Readable(text) == [readable |-> TRUE, text |-> text]

\* PartialConfiguration::from_file: `?` returns the I/O error
from_file(read) ==
    IF ~read.readable
    THEN Failure(EmptyDecoded,
                 [NoError EXCEPT !.cause = "io"])
    ELSE from_string(read.text)

\* faulty variant: a layer that cannot be read, decoded or expanded counts
\* as an empty layer
ReadLayerLenient(read, root) ==
    LET file == from_file(read)
        expanded == expand_relative_paths(file.value.partial, root)
    IN  IF file.ok /\ expanded.ok THEN expanded ELSE Ok(DefaultPartial)

\* PartialConfiguration::from_file(path).expand_relative_paths(root)
read_layer(read, root) ==
    LET file == from_file(read)
    IN  IF ~file.ok THEN Failure(DefaultPartial, file.error)
        ELSE expand_relative_paths(file.value.partial, root)

\* get_relative_local_root: local_root relative to global_root
get_relative_local_root(global_root, local_root) ==
    IF IsSome(local_root)
    THEN Some(SubSeq(Unwrap(local_root), Len(global_root) + 1,
                     Len(Unwrap(local_root))))
    ELSE None

NoConfiguration ==
    [project_root |-> <<>>, relative_local_root |-> None, binary |-> None,
     buck_mode |-> None, number_of_workers |-> None,
     source_directories |-> None, strict |-> FALSE, targets |-> None]

\* faulty variant: strict mode unless switched off
FromPartialStrictByDefault(root, relative_root, partial) ==
    [project_root |-> root,
     relative_local_root |-> relative_root,
     binary |-> partial.binary,
     buck_mode |-> partial.buck_mode,
     number_of_workers |-> partial.number_of_workers,
     source_directories |-> partial.source_directories,
     strict |-> IF IsSome(partial.strict) THEN Unwrap(partial.strict) ELSE TRUE,
     targets |-> partial.targets]

\* Configuration::from_partial_configuration, on the modelled fields
from_partial_configuration(root, relative_root, partial) ==
    [project_root |-> root,
     relative_local_root |-> relative_root,
     binary |-> partial.binary,
     buck_mode |-> partial.buck_mode,
     number_of_workers |-> partial.number_of_workers,
     source_directories |-> partial.source_directories,
     strict |-> IF IsSome(partial.strict) THEN Unwrap(partial.strict) ELSE FALSE,
     targets |-> partial.targets]

\* the search base: base_directory, joined with the explicit local path
search_base_of(args, directory) ==
    IF IsNone(args.local_configuration) THEN directory
    ELSE Join(directory, Unwrap(args.local_configuration))

\* faulty variant: only a missing global configuration is an error
ExplicitLocalCheckGlobalOnly(local_root_argument, found) ==
    IF IsNone(local_root_argument) THEN Ok(TRUE)
    ELSE IF IsNone(found)
         THEN Failure(FALSE, [NoError EXCEPT !.cause = "explicit_local",
                                             !.field = CONFIGURATION_FILE])
    ELSE Ok(TRUE)

\* the match on local_root_argument: with an explicit local path, a missing
\* global or local root is an error
explicit_local_check(local_root_argument, found) ==
    IF IsNone(local_root_argument) THEN Ok(TRUE)
    ELSE IF IsNone(found)
         THEN Failure(FALSE, [NoError EXCEPT !.cause = "explicit_local",
                                             !.field = CONFIGURATION_FILE])
    ELSE IF IsNone(Unwrap(found).local_root)
         THEN Failure(FALSE, [NoError EXCEPT !.cause = "explicit_local",
                                             !.field = LOCAL_CONFIGURATION_FILE])
    ELSE Ok(TRUE)

NotReturned == Failure(NoConfiguration, [NoError EXCEPT !.cause = "running"])

\* discovery, the check of an explicit local path, and the command-line layer
Begin ==
    /\ pc = "start"
    /\ LET base_of_search == search_base_of(arguments, base_directory)
           found == find_global_and_local_root(base_of_search)
           check == explicit_local_check(arguments.local_configuration, found)
           layer == expand_relative_paths(from_command_arguments(arguments), cwd)
       IN  /\ search_base' = base_of_search
           /\ found_root' = found
           /\ IF ~check.ok
              THEN /\ returned' = Failure(NoConfiguration, check.error)
                   /\ pc' = "done"
                   /\ UNCHANGED command_argument_configuration
              ELSE IF ~layer.ok
              THEN /\ returned' = Failure(NoConfiguration, layer.error)
                   /\ pc' = "done"
                   /\ UNCHANGED command_argument_configuration
              ELSE /\ command_argument_configuration' = layer.value
                   /\ pc' = "layers"
                   /\ UNCHANGED returned
    /\ UNCHANGED <<check_vars, expand_vars, fs, cwd, find_vars, merge_vars, decode_vars, arguments,
                   base_directory, partial_configuration, project_root,
                   relative_local_root, global_contents, local_contents,
                   files_read>>

\* no project found: the working directory is the project root
NoRoot ==
    /\ pc = "layers"
    /\ IsNone(found_root)
    /\ project_root' = cwd
    /\ relative_local_root' = None
    /\ partial_configuration' = command_argument_configuration
    /\ returned' = Ok(from_partial_configuration(cwd, None,
                                               command_argument_configuration))
    /\ pc' = "done"
    /\ UNCHANGED <<check_vars, expand_vars, fs, cwd, find_vars, found_root, merge_vars, decode_vars,
                   arguments, base_directory, search_base,
                   command_argument_configuration, global_contents,
                   local_contents, files_read>>

\* the global layer: read, decoded and expanded against the global root
ReadGlobal(read) ==
    /\ pc = "layers"
    /\ IsSome(found_root)
    /\ LET root == Unwrap(found_root).global_root
           layer == read_layer(read, root)
       IN  /\ project_root' = root
           /\ relative_local_root' = None
           /\ files_read' = Append(files_read, Join(root, <<CONFIGURATION_FILE>>))
           /\ global_contents' = read
           /\ IF layer.ok
              THEN /\ partial_configuration' = layer.value
                   /\ pc' = "global_read"
                   /\ UNCHANGED returned
              ELSE /\ returned' = Failure(NoConfiguration, layer.error)
                   /\ pc' = "done"
                   /\ UNCHANGED partial_configuration
    /\ UNCHANGED <<check_vars, expand_vars, fs, cwd, find_vars, found_root, merge_vars, decode_vars,
                   arguments, base_directory, search_base,
                   command_argument_configuration, local_contents>>

\* the local layer: read, decoded, expanded against the local root and
\* merged over the global layer
ReadLocal(read) ==
    /\ pc = "global_read"
    /\ IsSome(Unwrap(found_root).local_root)
    /\ LET local_root == Unwrap(Unwrap(found_root).local_root)
           layer == read_layer(read, local_root)
       IN  /\ relative_local_root' =
                get_relative_local_root(project_root, Some(local_root))
           /\ files_read' =
                Append(files_read, Join(local_root, <<LOCAL_CONFIGURATION_FILE>>))
           /\ local_contents' = read
           /\ IF layer.ok
              THEN /\ partial_configuration' =
                        merge_partial_configurations(partial_configuration,
                                                     layer.value)
                   /\ pc' = "local_read"
                   /\ UNCHANGED returned
              ELSE /\ returned' = Failure(NoConfiguration, layer.error)
                   /\ pc' = "done"
                   /\ UNCHANGED partial_configuration
    /\ UNCHANGED <<check_vars, expand_vars, fs, cwd, find_vars, found_root, merge_vars, decode_vars,
                   arguments, base_directory, search_base,
                   command_argument_configuration, project_root,
                   global_contents>>

\* the command-line layer merged over the file layers, and the assembly
Finish ==
    /\ \/ pc = "local_read"
       \/ pc = "global_read" /\ IsNone(Unwrap(found_root).local_root)
    /\ LET merged_layers ==
               merge_partial_configurations(partial_configuration,
                                            command_argument_configuration)
       IN  /\ partial_configuration' = merged_layers
           /\ returned' = Ok(from_partial_configuration(project_root,
                                                      relative_local_root,
                                                      merged_layers))
    /\ pc' = "done"
    /\ UNCHANGED <<check_vars, expand_vars, fs, cwd, find_vars, found_root, merge_vars, decode_vars,
                   arguments, base_directory, search_base,
                   command_argument_configuration, project_root,
                   relative_local_root, global_contents, local_contents,
                   files_read>>

----------------------------------------------------------------------------
(* check_command (check.rs): one run of the checker binary.  The standard   *)
(* output of the child is a sequence of tokens: "[" "]" "," of JSON, "e" a  *)
(* JSON object that deserializes as a TypeError, "bad" a byte sequence that *)
(* is not UTF-8.                                                            *)

Tokens == {"[", "]", ",", "e", "bad"}

\* String::from_utf8: fails (None) on bytes that are not UTF-8
from_utf8(bytes) ==
    IF \E i \in 1..Len(bytes) : bytes[i] = "bad" THEN None ELSE Some(bytes)

\* parse_type_error_response: serde_json::from_str as Vec<TypeError>; None
\* stands for the failed expect
parse_type_error_response(val) ==
    IF Len(val) < 2 \/ val[1] # "[" \/ val[Len(val)] # "]" THEN None
    ELSE LET inner == SubSeq(val, 2, Len(val) - 1)
         IN  IF inner = <<>> THEN Some(<<>>)
             ELSE IF /\ Len(inner) % 2 = 1
                     /\ \A i \in 1..Len(inner) :
                            inner[i] = (IF i % 2 = 1 THEN "e" ELSE ",")
                  THEN Some([i \in 1..((Len(inner) + 1) \div 2) |-> inner[2 * i - 1]])
                  ELSE None

\* what check_command ends with
Pending == [outcome |-> "pending", msg |-> ""]
CheckOk == [outcome |-> "ok", msg |-> ""]
CheckError(msg) == [outcome |-> "err", msg |-> msg]
Panicked(msg) == [outcome |-> "panic", msg |-> msg]

\* faulty variant: the exit status is not looked at
InterpretIgnoresStatus(out) ==
    LET stdout == from_utf8(out.stdout)
    IN  IF IsNone(stdout)
        THEN [result |-> Panicked("Cannot decode as utf-8"), parsed |-> None]
        ELSE LET type_errors == parse_type_error_response(Unwrap(stdout))
             IN  IF IsNone(type_errors)
                 THEN [result |-> Panicked("Cannot parse response as JSON"),
                       parsed |-> stdout]
                 ELSE IF Len(Unwrap(type_errors)) = 0
                 THEN [result |-> CheckOk, parsed |-> stdout]
                 ELSE [result |-> CheckError("Had some type errors"),
                       parsed |-> stdout]

\* check_command after wait_with_output: the status is tested first, then
\* the output is decoded and parsed, then the errors are counted
interpret(out) ==
    IF out.status # 0
    THEN [result |-> CheckError("Command failed"), parsed |-> None]
    ELSE LET stdout == from_utf8(out.stdout)
         IN  IF IsNone(stdout)
             THEN [result |-> Panicked("Cannot decode as utf-8"), parsed |-> None]
             ELSE LET type_errors == parse_type_error_response(Unwrap(stdout))
                  IN  IF IsNone(type_errors)
                      THEN [result |-> Panicked("Cannot parse response as JSON"),
                            parsed |-> stdout]
                      ELSE IF Len(Unwrap(type_errors)) = 0
                      THEN [result |-> CheckOk, parsed |-> stdout]
                      ELSE [result |-> CheckError("Had some type errors"),
                            parsed |-> stdout]

NoChild == [state |-> "none", written |-> <<>>]

\* Command::new(..).spawn() starts the child
Spawn ==
    /\ pc = "check_ready"
    /\ child' = [state |-> "running", written |-> <<>>]
    /\ invocations' = invocations + 1
    /\ pc' = "waiting"
    /\ UNCHANGED <<checker, output, parsed, check_returned>>
    /\ UNCHANGED <<expand_vars, fs, cwd, find_vars, found_root, merge_vars,
                   decode_vars, create_vars>>

\* spawn() fails: `?` returns the I/O error
SpawnFails ==
    /\ pc = "check_ready"
    /\ check_returned' = CheckError("I/O error")
    /\ pc' = "check_done"
    /\ UNCHANGED <<checker, child, invocations, output, parsed>>
    /\ UNCHANGED <<expand_vars, fs, cwd, find_vars, found_root, merge_vars,
                   decode_vars, create_vars>>

\* the child writes the next token of its output to the pipe
ChildWrite ==
    /\ child.state = "running"
    /\ Len(child.written) < Len(checker.stdout)
    /\ child' = [child EXCEPT
                    !.written = Append(@, checker.stdout[Len(@) + 1])]
    /\ UNCHANGED <<checker, invocations, output, parsed, check_returned>>
    /\ UNCHANGED <<expand_vars, pc, fs, cwd, find_vars, found_root, merge_vars,
                   decode_vars, create_vars>>

\* the child exits once it has written its output
ChildExit ==
    /\ child.state = "running"
    /\ child.written = checker.stdout
    /\ child' = [child EXCEPT !.state = "exited"]
    /\ UNCHANGED <<checker, invocations, output, parsed, check_returned>>
    /\ UNCHANGED <<expand_vars, pc, fs, cwd, find_vars, found_root, merge_vars,
                   decode_vars, create_vars>>

\* wait_with_output returns when the child has exited, with everything it
\* wrote; the rest of check_command interprets it
Wait ==
    /\ pc = "waiting"
    /\ child.state = "exited"
    /\ LET out == [status |-> checker.status, stdout |-> child.written]
       IN  /\ output' = Some(out)
           /\ parsed' = interpret(out).parsed
           /\ check_returned' = interpret(out).result
    /\ pc' = "check_done"
    /\ UNCHANGED <<checker, child, invocations>>
    /\ UNCHANGED <<expand_vars, fs, cwd, find_vars, found_root, merge_vars,
                   decode_vars, create_vars>>

\* wait_with_output fails: `?` returns the I/O error
WaitFails ==
    /\ pc = "waiting"
    /\ check_returned' = CheckError("I/O error")
    /\ pc' = "check_done"
    /\ UNCHANGED <<checker, child, invocations, output, parsed>>
    /\ UNCHANGED <<expand_vars, fs, cwd, find_vars, found_root, merge_vars,
                   decode_vars, create_vars>>

----------------------------------------------------------------------------
(* Values of the variables a harness does not use *)

EmptyFs == [p \in ConfigPaths |-> "absent"]
NotDecoded == Ok(EmptyDecoded)
NoArguments ==
    [local_configuration |-> None, binary |-> None, buck_mode |-> None,
     number_of_workers |-> None, source_directories |-> <<>>,
     strict |-> FALSE, targets |-> <<>>]

CheckIdle ==
    /\ checker = [stdout |-> <<>>, status |-> 0]
    /\ child = NoChild
    /\ invocations = 0
    /\ output = None
    /\ parsed = None
    /\ check_returned = Pending
ExpandIdle ==
    /\ expand_root = RootDir
    /\ second_root = RootDir
    /\ expand_input = <<>>
    /\ expand_partial = DefaultPartial
    /\ expand_result = None
    /\ re_expand_result = None
    /\ global_expanded = None
    /\ partial_expanded = Ok(DefaultPartial)
    /\ partial_re_expanded = Ok(DefaultPartial)
FindIdle ==
    /\ base = RootDir
    /\ target = CONFIGURATION_FILE
    /\ stop = None
    /\ parent_result = None
MergeIdle ==
    /\ merge_base = DefaultPartial
    /\ merge_overwrite = DefaultPartial
    /\ merged = DefaultPartial
DecodeIdle ==
    /\ contents = Malformed
    /\ decoded = NotDecoded
CreateIdle ==
    /\ arguments = NoArguments
    /\ base_directory = RootDir
    /\ search_base = RootDir
    /\ command_argument_configuration = DefaultPartial
    /\ partial_configuration = DefaultPartial
    /\ project_root = RootDir
    /\ relative_local_root = None
    /\ global_contents = Unreadable
    /\ local_contents = Unreadable
    /\ files_read = <<>>
    /\ returned = NotReturned

----------------------------------------------------------------------------
(* Discovery harness: the environment creates configuration entries, then  *)
(* one of the two public searches runs once.                               *)

Entries == {p \in ConfigPaths : fs[p] # "absent"}
StopValues == {None} \cup {Some(n) : n \in 0..MaxDepth}

InitFind ==
    /\ pc = "setup"
    /\ fs = EmptyFs
    /\ FindIdle
    /\ CheckIdle
    /\ ExpandIdle
    /\ found_root = None
    /\ cwd = RootDir
    /\ MergeIdle
    /\ DecodeIdle
    /\ CreateIdle

\* the environment creates a regular file, a directory or an unreadable entry
PlaceEntry(p, k) ==
    /\ pc = "setup"
    /\ fs[p] = "absent"
    /\ Cardinality(Entries) < MaxEntries
    /\ fs' = [fs EXCEPT ![p] = k]
    /\ UNCHANGED <<check_vars, expand_vars, pc, cwd, find_vars, found_root, merge_vars, decode_vars, create_vars>>

FindParent(b, t, s) ==
    /\ pc = "setup"
    /\ pc' = "searched_parent"
    /\ base' = b
    /\ target' = t
    /\ stop' = s
    /\ parent_result' = find_parent_directory_containing_file(b, t, s)
    /\ UNCHANGED <<check_vars, expand_vars, fs, cwd, found_root, merge_vars, decode_vars, create_vars>>

FindRoots(b) ==
    /\ pc = "setup"
    /\ pc' = "searched_roots"
    /\ base' = b
    /\ found_root' = find_global_and_local_root(b)
    /\ UNCHANGED <<check_vars, expand_vars, fs, cwd, target, stop, parent_result, merge_vars, decode_vars, create_vars>>

NextFind ==
    \/ \E p \in ConfigPaths, k \in Kinds \ {"absent"} : PlaceEntry(p, k)
    \/ \E b \in SearchBases, t \in ConfigNames, s \in StopValues : FindParent(b, t, s)
    \/ \E b \in SearchBases : FindRoots(b)

SpecFind == InitFind /\ [][NextFind]_vars

----------------------------------------------------------------------------
(* Merge harness: two layers, merged once *)

\* the partial configurations of one layer, whose values name the layer
LayerPartials(path, mode, workers, name) ==
    [binary : {None, Some(path)},
     buck_mode : {None, Some(mode)},
     number_of_workers : {None, Some(workers)},
     source_directories : {None, Some(<<name>>)},
     strict : {None, Some(TRUE), Some(FALSE)},
     targets : {None, Some(<<>>), Some(<<name>>)}]

InitMerge ==
    /\ pc = "merge_ready"
    /\ fs = EmptyFs
    /\ cwd = RootDir
    /\ found_root = None
    /\ FindIdle
    /\ CheckIdle
    /\ ExpandIdle
    /\ DecodeIdle
    /\ CreateIdle
    /\ merge_base \in LayerPartials(<<"/", "base", "bin">>, <<"dev">>, 4, <<"t1">>)
    /\ merge_overwrite \in LayerPartials(<<"/", "over", "bin">>, <<"opt">>, 8, <<"t2">>)
    /\ merged = DefaultPartial

Merge ==
    /\ pc = "merge_ready"
    /\ pc' = "merged"
    /\ merged' = merge_partial_configurations(merge_base, merge_overwrite)
    /\ UNCHANGED <<check_vars, expand_vars, fs, cwd, find_vars, found_root, merge_base, merge_overwrite,
                   decode_vars, create_vars>>

NextMerge == Merge

SpecMerge == InitMerge /\ [][NextMerge]_vars

----------------------------------------------------------------------------
(* Decoding harness: one document, decoded once *)

DocKeys ==
    {"binary", "buck_mode", "workers", "strict", "targets", "site_roots",
     "ignore_all_errors", "extensions", "source_directories", "do_not_check",
     "saved_state", "taint_models_path", "unknown_item"}

DocValues ==
    {JStr(<<"four">>), JInt(4), JBool(TRUE),
     JList(<<>>), JList(<<Item("str", <<"x">>, 0, FALSE)>>),
     JList(<<Item("int", <<>>, 5, FALSE)>>),
     JDict(<<Item("str", <<"dev">>, 0, FALSE)>>),
     JDict(<<Item("int", <<>>, 5, FALSE)>>)}

Documents ==
    UNION {[K -> DocValues] :
            K \in {K \in SUBSET DocKeys : Cardinality(K) <= MaxKeys}}

InitDecode ==
    /\ pc = "decode_ready"
    /\ fs = EmptyFs
    /\ cwd = RootDir
    /\ found_root = None
    /\ FindIdle
    /\ CheckIdle
    /\ ExpandIdle
    /\ MergeIdle
    /\ CreateIdle
    /\ contents \in {Malformed} \cup {Document(json) : json \in Documents}
    /\ decoded = NotDecoded

Decode ==
    /\ pc = "decode_ready"
    /\ pc' = "decoded"
    /\ decoded' = from_string(contents)
    /\ UNCHANGED <<check_vars, expand_vars, fs, cwd, find_vars, found_root, merge_vars, contents,
                   create_vars>>

NextDecode == Decode

SpecDecode == InitDecode /\ [][NextDecode]_vars

----------------------------------------------------------------------------
(* create_configuration, run once over a file system, a working directory,  *)
(* a base directory and command arguments                                   *)

\* file systems with at most one global configuration file
CreateFileSystems ==
    {f \in [ConfigPaths -> {"absent", "file"}] :
        /\ Cardinality({p \in ConfigPaths : f[p] = "file"}) <= MaxEntries
        /\ Cardinality({d \in Dirs : f[d \o <<CONFIGURATION_FILE>>] = "file"}) <= 1}

AllFlags == {"binary", "buck_mode", "number_of_workers", "source_directories",
             "strict", "targets"}
\* the flags given on a command line: none, one, or all of them
FlagSets == {{}} \cup {{f} : f \in AllFlags} \cup {AllFlags}
LocalArguments == {None} \cup {Some(<<LevelNames[k]>>) : k \in 1..MaxDepth}

ArgumentsWith(given, binary, local) ==
    [local_configuration |-> local,
     binary |-> IF "binary" \in given THEN Some(binary) ELSE None,
     buck_mode |-> IF "buck_mode" \in given THEN Some(<<"cli-mode">>) ELSE None,
     number_of_workers |-> IF "number_of_workers" \in given THEN Some(2) ELSE None,
     source_directories |->
        IF "source_directories" \in given
        THEN <<<<"cli-src">>, <<"//", "gen">>>> ELSE <<>>,
     strict |-> "strict" \in given,
     targets |-> IF "targets" \in given THEN <<<<"cli-target">>>> ELSE <<>>]

ArgumentChoices ==
    {ArgumentsWith(given, <<"cli-bin">>, local) :
        given \in FlagSets, local \in LocalArguments}
    \cup {ArgumentsWith({"binary"}, <<MissingName>>, local) : local \in LocalArguments}

DocumentA ==
    [binary |-> JStr(<<"bin">>), buck_mode |-> JStr(<<"dev">>),
     workers |-> JInt(4), strict |-> JBool(TRUE),
     targets |-> JList(<<Item("str", <<"t1">>, 0, FALSE)>>),
     source_directories |-> JList(<<Item("str", <<"src">>, 0, FALSE)>>)]
DocumentB ==
    [binary |-> JStr(<<"/", "opt", "bin">>), buck_mode |-> JStr(<<"opt">>),
     workers |-> JInt(8), strict |-> JBool(FALSE),
     source_directories |-> JList(<<Item("str", <<"//", "gen">>, 0, FALSE)>>)]
DocumentEmpty == [k \in {} |-> JNull]
DocumentBadType == [workers |-> JStr(<<"four">>)]
DocumentMissingPath == [binary |-> JStr(<<MissingName>>)]

\* what reading a configuration file may give
DiskReads ==
    {Unreadable, Readable(Malformed)}
    \cup {Readable(Document(json)) :
            json \in {DocumentA, DocumentB, DocumentEmpty, DocumentBadType,
                      DocumentMissingPath}}

Init ==
    /\ pc = "start"
    /\ fs \in CreateFileSystems
    /\ cwd \in {RootDir, Outside}
    /\ found_root = None
    /\ FindIdle
    /\ CheckIdle
    /\ ExpandIdle
    /\ MergeIdle
    /\ DecodeIdle
    /\ arguments \in ArgumentChoices
    /\ base_directory \in Dirs
    /\ search_base = RootDir
    /\ command_argument_configuration = DefaultPartial
    /\ partial_configuration = DefaultPartial
    /\ project_root = RootDir
    /\ relative_local_root = None
    /\ global_contents = Unreadable
    /\ local_contents = Unreadable
    /\ files_read = <<>>
    /\ returned = NotReturned

Next ==
    \/ Begin
    \/ NoRoot
    \/ \E read \in DiskReads : ReadGlobal(read)
    \/ \E read \in DiskReads : ReadLocal(read)
    \/ Finish

Spec == Init /\ [][Next]_vars

----------------------------------------------------------------------------
(* check_command harness: one checker binary, run once *)

\* the outputs a checker may write: every token sequence up to MaxOutput
Outputs == UNION {[1..n -> Tokens] : n \in 0..MaxOutput}
Statuses == {0, 1}

InitCheck ==
    /\ pc = "check_ready"
    /\ fs = EmptyFs
    /\ cwd = RootDir
    /\ found_root = None
    /\ FindIdle
    /\ MergeIdle
    /\ DecodeIdle
    /\ CreateIdle
    /\ ExpandIdle
    /\ checker \in [stdout : Outputs, status : Statuses]
    /\ child = NoChild
    /\ invocations = 0
    /\ output = None
    /\ parsed = None
    /\ check_returned = Pending

NextCheck ==
    \/ Spawn
    \/ SpawnFails
    \/ ChildWrite
    \/ ChildExit
    \/ Wait
    \/ WaitFails

SpecCheck == InitCheck /\ [][NextCheck]_vars

----------------------------------------------------------------------------
(* Expansion harness: a path and a partial configuration, expanded against  *)
(* one root and the result expanded again against another                   *)

ExpandRoots == {RootDir, <<"/", "a">>, <<"/", "a", "b">>}
PathComponents == {"b", "bin", ".", "..", MissingName}
PathBodies == UNION {[1..n -> PathComponents] : n \in 1..MaxPathLen}
\* relative paths, absolute paths and paths with the global-root marker
ExpandInputs ==
    PathBodies \cup {<<"/">> \o q : q \in PathBodies}
               \cup {<<"//">> \o q : q \in PathBodies}

\* partial configurations whose paths are made of x
PartialsOf(x) ==
    {[binary |-> binary, buck_mode |-> Some(<<"dev">>),
      number_of_workers |-> Some(4), source_directories |-> directories,
      strict |-> Some(TRUE), targets |-> Some(<<<<"t1">>>>)] :
        binary \in {None, Some(x)},
        directories \in {None, Some(<<x>>), Some(<<<<"//", "gen">>, x>>)}}

InitExpand ==
    /\ pc = "expand_ready"
    /\ fs = EmptyFs
    /\ cwd \in ExpandRoots
    /\ found_root = None
    /\ FindIdle
    /\ MergeIdle
    /\ DecodeIdle
    /\ CreateIdle
    /\ CheckIdle
    /\ expand_root \in ExpandRoots
    /\ second_root \in ExpandRoots
    /\ expand_input \in ExpandInputs
    /\ expand_partial \in PartialsOf(expand_input)
    /\ expand_result = None
    /\ re_expand_result = None
    /\ global_expanded = None
    /\ partial_expanded = Ok(DefaultPartial)
    /\ partial_re_expanded = Ok(DefaultPartial)

ExpandPath ==
    /\ pc = "expand_ready"
    /\ expand_result' = expand_relative_path(expand_root, expand_input)
    /\ pc' = "path_expanded"
    /\ UNCHANGED <<expand_root, second_root, expand_input, expand_partial,
                   re_expand_result, global_expanded, partial_expanded,
                   partial_re_expanded>>
    /\ UNCHANGED <<check_vars, fs, cwd, find_vars, found_root, merge_vars,
                   decode_vars, create_vars>>

ReExpandPath ==
    /\ pc = "path_expanded"
    /\ IsSome(expand_result)
    /\ re_expand_result' = expand_relative_path(second_root, Unwrap(expand_result))
    /\ pc' = "path_re_expanded"
    /\ UNCHANGED <<expand_root, second_root, expand_input, expand_partial,
                   expand_result, global_expanded, partial_expanded,
                   partial_re_expanded>>
    /\ UNCHANGED <<check_vars, fs, cwd, find_vars, found_root, merge_vars,
                   decode_vars, create_vars>>

ExpandGlobalRoot ==
    /\ pc = "expand_ready"
    /\ global_expanded' = expand_global_root(expand_input, expand_root)
    /\ pc' = "global_root_expanded"
    /\ UNCHANGED <<expand_root, second_root, expand_input, expand_partial,
                   expand_result, re_expand_result, partial_expanded,
                   partial_re_expanded>>
    /\ UNCHANGED <<check_vars, fs, cwd, find_vars, found_root, merge_vars,
                   decode_vars, create_vars>>

ExpandPartial ==
    /\ pc = "expand_ready"
    /\ partial_expanded' = expand_relative_paths(expand_partial, expand_root)
    /\ pc' = "partial_expanded"
    /\ UNCHANGED <<expand_root, second_root, expand_input, expand_partial,
                   expand_result, re_expand_result, global_expanded,
                   partial_re_expanded>>
    /\ UNCHANGED <<check_vars, fs, cwd, find_vars, found_root, merge_vars,
                   decode_vars, create_vars>>

ReExpandPartial ==
    /\ pc = "partial_expanded"
    /\ partial_expanded.ok
    /\ partial_re_expanded' =
            expand_relative_paths(partial_expanded.value, second_root)
    /\ pc' = "partial_re_expanded"
    /\ UNCHANGED <<expand_root, second_root, expand_input, expand_partial,
                   expand_result, re_expand_result, global_expanded,
                   partial_expanded>>
    /\ UNCHANGED <<check_vars, fs, cwd, find_vars, found_root, merge_vars,
                   decode_vars, create_vars>>

NextExpand ==
    \/ ExpandPath
    \/ ReExpandPath
    \/ ExpandGlobalRoot
    \/ ExpandPartial
    \/ ReExpandPartial

SpecExpand == InitExpand /\ [][NextExpand]_vars

----------------------------------------------------------------------------
(* Properties of directory discovery, stated over the files on disk *)

\* base and its ancestors, as a set
AncestorSet(b) == {SubSeq(b, 1, k) : k \in 1..Len(b)}
\* d holds a regular, readable file named f
RegularFileIn(d, f) == (d \o <<f>>) \in ConfigPaths /\ fs[d \o <<f>>] = "file"
\* the directories among b and its ancestors that hold f
Holders(b, f) == {d \in AncestorSet(b) : RegularFileIn(d, f)}
\* the deepest directory of a non-empty set of ancestors of one path
NearestOf(S) == CHOOSE d \in S : \A e \in S : Len(e) <= Len(d)
\* l is a strict descendant of g
StrictlyBelow(l, g) == Len(l) > Len(g) /\ SubSeq(l, 1, Len(g)) = g

\* C3: whenever find_global_and_local_root reports a local root, that root is
\* a strict descendant of the reported global root.
C3_LocalRootStrictlyBelowGlobal ==
    (pc = "searched_roots" /\ IsSome(found_root))
        => (IsSome(Unwrap(found_root).local_root)
                => StrictlyBelow(Unwrap(Unwrap(found_root).local_root),
                                 Unwrap(found_root).global_root))

C3_Witness ==
    /\ pc = "searched_roots"
    /\ IsSome(found_root)
    /\ IsSome(Unwrap(found_root).local_root)
    /\ Cardinality(Holders(base, LOCAL_CONFIGURATION_FILE)) > 1

\* C4: with a global configuration in base or an ancestor, the result is the
\* nearest global directory, together with the nearest local directory when
\* that lies strictly below it and with no local root otherwise.
C4_NearestRoots ==
    (pc = "searched_roots" /\ Holders(base, CONFIGURATION_FILE) # {})
        => LET g == NearestOf(Holders(base, CONFIGURATION_FILE))
               locals == Holders(base, LOCAL_CONFIGURATION_FILE)
           IN  found_root =
                   Some([global_root |-> g,
                         local_root |->
                            IF locals # {} /\ StrictlyBelow(NearestOf(locals), g)
                            THEN Some(NearestOf(locals)) ELSE None])

C4_Witness ==
    /\ pc = "searched_roots"
    /\ Holders(base, CONFIGURATION_FILE) # {}
    /\ Holders(base, LOCAL_CONFIGURATION_FILE) # {}
    /\ StrictlyBelow(NearestOf(Holders(base, CONFIGURATION_FILE)),
                     NearestOf(Holders(base, LOCAL_CONFIGURATION_FILE)))
    /\ IsSome(found_root)
    /\ IsNone(Unwrap(found_root).local_root)

\* C5: the result is None exactly when neither base nor an ancestor holds the
\* global configuration file, whatever local configuration files exist.
C5_NoneIffNoGlobal ==
    pc = "searched_roots"
        => (IsNone(found_root) <=> Holders(base, CONFIGURATION_FILE) = {})

C5_Witness ==
    /\ pc = "searched_roots"
    /\ IsNone(found_root)
    /\ Holders(base, LOCAL_CONFIGURATION_FILE) # {}

\* the directories find_parent_directory_containing_file may examine: base
\* and, when bounded by n, at most n of its parents
Examined(b, s) ==
    {d \in AncestorSet(b) : IsNone(s) \/ Len(b) - Len(d) <= Unwrap(s)}

\* C6: the search returns the nearest examined directory holding target as a
\* regular file (base first), and None when no examined directory does;
\* entries that are missing, unreadable or not regular files never match.
C6_FirstExaminedHolder ==
    pc = "searched_parent"
        => LET hits == {d \in Examined(base, stop) : RegularFileIn(d, target)}
           IN  IF hits = {} THEN IsNone(parent_result)
               ELSE parent_result = Some(NearestOf(hits))

C6_Witness ==
    /\ pc = "searched_parent"
    /\ IsSome(stop)
    /\ IsNone(parent_result)
    /\ Holders(base, target) # {}
    /\ \E d \in Examined(base, stop) :
            (d \o <<target>>) \in ConfigPaths /\ fs[d \o <<target>>] \in {"dir", "denied"}

----------------------------------------------------------------------------
(* Properties of merge *)

----------------------------------------------------------------------------
(* Properties of create_configuration *)

\* the absolute path a path stands for, seen from directory d
AbsoluteFrom(d, p) == IF IsAbsolute(p) THEN RootDir \o Tail(p) ELSE d \o p

\* the flag of field f was given on the command line
CommandLineGave(f) ==
    CASE f = "binary" -> IsSome(arguments.binary)
      [] f = "buck_mode" -> IsSome(arguments.buck_mode)
      [] f = "number_of_workers" -> IsSome(arguments.number_of_workers)
      [] f = "source_directories" -> Len(arguments.source_directories) > 0
      [] f = "strict" -> arguments.strict
      [] f = "targets" -> Len(arguments.targets) > 0

LocalRootFound == IsSome(found_root) /\ IsSome(Unwrap(found_root).local_root)
\* the file layers as decoded and expanded from what was read
GlobalLayer == read_layer(global_contents, Unwrap(found_root).global_root).value
LocalLayer ==
    read_layer(local_contents, Unwrap(Unwrap(found_root).local_root)).value

\* the value of field f by the precedence command line, local, global
LayeredValue(f) ==
    IF CommandLineGave(f) THEN command_argument_configuration[f]
    ELSE IF LocalRootFound /\ IsSome(LocalLayer[f]) THEN LocalLayer[f]
    ELSE IF IsSome(found_root) /\ IsSome(GlobalLayer[f]) THEN GlobalLayer[f]
    ELSE None

\* C2: in a Configuration returned by create_configuration every optional
\* field holds the command-line value if the command line set it, else the
\* local file's value if a local root was found and the file set it, else
\* the global file's value if it set it, else the default.
C2_LayeredPrecedence ==
    (pc = "done" /\ returned.ok)
        => /\ \A f \in OptionFields \ {"strict"} :
                returned.value[f] = LayeredValue(f)
           /\ returned.value.strict =
                (IF IsSome(LayeredValue("strict"))
                 THEN Unwrap(LayeredValue("strict")) ELSE FALSE)

ExplicitLocal == IsSome(arguments.local_configuration)

\* discovery from b finds no local configuration to use: no global root, no
\* local file, or a nearest local file at or above the global root
NoLocalConfigurationFrom(b) ==
    \/ Holders(b, CONFIGURATION_FILE) = {}
    \/ Holders(b, LOCAL_CONFIGURATION_FILE) = {}
    \/ ~StrictlyBelow(NearestOf(Holders(b, LOCAL_CONFIGURATION_FILE)),
                      NearestOf(Holders(b, CONFIGURATION_FILE)))

\* C7 as claimed: with an explicit local path the call fails whenever
\* discovery finds no local configuration, and when it succeeds the local
\* root used is the search base itself.
C7_ExplicitLocalIsSearchBase ==
    (pc = "done" /\ ExplicitLocal)
        => /\ NoLocalConfigurationFrom(search_base)
                => (~returned.ok /\ returned.error.cause = "explicit_local")
           /\ returned.ok
                => Unwrap(found_root).local_root = Some(search_base)

\* C7, amended: with an explicit local path the call fails with the
\* explicit-local error, before any file is read, exactly when discovery
\* from the search base finds no local configuration; when it succeeds the
\* local root used is the nearest directory, among the search base and its
\* ancestors strictly below the global root, that holds the local file.
C7_ExplicitLocalNearestHolder ==
    (pc = "done" /\ ExplicitLocal)
        => /\ NoLocalConfigurationFrom(search_base)
                => /\ ~returned.ok
                   /\ returned.error.cause = "explicit_local"
                   /\ files_read = <<>>
           /\ ~NoLocalConfigurationFrom(search_base)
                => returned.error.cause # "explicit_local"
           /\ returned.ok
                => LET g == NearestOf(Holders(search_base, CONFIGURATION_FILE))
                       l == NearestOf(Holders(search_base, LOCAL_CONFIGURATION_FILE))
                   IN  /\ returned.value.project_root = g
                       /\ returned.value.relative_local_root =
                            Some(SubSeq(l, Len(g) + 1, Len(l)))
                       /\ files_read = <<g \o <<CONFIGURATION_FILE>>,
                                         l \o <<LOCAL_CONFIGURATION_FILE>>>>

C7_Witness ==
    /\ pc = "done"
    /\ ExplicitLocal
    /\ returned.ok
    /\ Unwrap(found_root).local_root # Some(search_base)
    /\ StrictlyBelow(search_base, Unwrap(Unwrap(found_root).local_root))

\* no explicit local path, and no global configuration in base_directory or
\* its ancestors
NoProjectCase ==
    /\ pc = "done"
    /\ ~ExplicitLocal
    /\ Holders(base_directory, CONFIGURATION_FILE) = {}

\* a path given on the command line cannot be canonicalized
CommandLinePathFails ==
    \/ IsSome(arguments.binary)
        /\ ~PathExists(AbsoluteFrom(cwd, Unwrap(arguments.binary)))
    \/ \E i \in 1..Len(arguments.source_directories) :
        /\ ~StartsWithGlobalMarker(arguments.source_directories[i])
        /\ ~PathExists(AbsoluteFrom(cwd, arguments.source_directories[i]))

\* the Configuration the command-line partial configuration and the
\* defaults give, with the working directory as project root
CommandLineConfiguration ==
    LET layer == from_command_arguments(arguments)
    IN  [project_root |-> cwd,
         relative_local_root |-> None,
         binary |-> IF IsSome(layer.binary)
                    THEN Some(AbsoluteFrom(cwd, Unwrap(layer.binary))) ELSE None,
         buck_mode |-> layer.buck_mode,
         number_of_workers |-> layer.number_of_workers,
         source_directories |->
            IF IsSome(layer.source_directories)
            THEN Some([i \in 1..Len(Unwrap(layer.source_directories)) |->
                        IF StartsWithGlobalMarker(Unwrap(layer.source_directories)[i])
                        THEN Unwrap(layer.source_directories)[i]
                        ELSE AbsoluteFrom(cwd, Unwrap(layer.source_directories)[i])])
            ELSE None,
         strict |-> (layer.strict = Some(TRUE)),
         targets |-> layer.targets]

\* C8 as claimed: without an explicit local path and without a global root
\* the call succeeds, with the working directory as project root, no
\* relative local root, the fields of the command line, and no file read.
C8_NoProjectSucceeds ==
    NoProjectCase
        => /\ returned.ok
           /\ returned.value = CommandLineConfiguration
           /\ files_read = <<>>

\* C8, amended: in that case no file is read, and the call succeeds with
\* that Configuration unless a path given on the command line cannot be
\* canonicalized, in which case it fails.
C8_NoProjectUsesCommandLine ==
    NoProjectCase
        => /\ files_read = <<>>
           /\ IF CommandLinePathFails THEN ~returned.ok
              ELSE returned.ok /\ returned.value = CommandLineConfiguration

C8_Witness ==
    /\ NoProjectCase
    /\ returned.ok
    /\ returned.value.project_root = cwd
    /\ cwd # base_directory
    /\ Holders(base_directory, LOCAL_CONFIGURATION_FILE) # {}
    /\ arguments.strict

\* a layer fails: the read, the decoding or the expansion of a path
LayerFails(read, root) ==
    \/ ~from_file(read).ok
    \/ ~expand_relative_paths(from_file(read).value.partial, root).ok
CommandLayerFails ==
    ~expand_relative_paths(from_command_arguments(arguments), cwd).ok
GlobalLayerFails ==
    Len(files_read) >= 1 /\ LayerFails(global_contents, project_root)
LocalLayerFails ==
    /\ Len(files_read) >= 2
    /\ LayerFails(local_contents, Unwrap(Unwrap(found_root).local_root))

----------------------------------------------------------------------------
(* Properties of decoding *)

\* the fields the claim names, by the type the schema expects
ScalarType == [binary |-> "str", workers |-> "int", strict |-> "bool"]
StringListKeys == {"ignore_all_errors", "targets", "site_roots"}
TypedKeys == DOMAIN ScalarType \cup StringListKeys \cup {"buck_mode", "extensions"}

AllStrings(items) == \A i \in 1..Len(items) : items[i].type = "str"

\* value v has the type the schema expects of key k
WellTyped(k, v) ==
    IF k \in DOMAIN ScalarType THEN v.type = ScalarType[k]
    ELSE IF k \in StringListKeys THEN v.type = "list" /\ AllStrings(v.items)
    ELSE IF k = "buck_mode"
         THEN v.type = "str" \/ (v.type = "dict" /\ AllStrings(v.items))
    ELSE v.type = "list"

IllTypedKeys(json) == {k \in DOMAIN json \cap TypedKeys : ~WellTyped(k, json[k])}

\* C10: decoding a document with a recognized field of the wrong type fails
\* with an error naming such a field and its actual value, and produces no
\* partial configuration.
C10_TypeMismatchFails ==
    (pc = "decoded" /\ ~contents.malformed /\ IllTypedKeys(contents.json) # {})
        => /\ ~decoded.ok
           /\ decoded.error.cause = "type"
           /\ decoded.error.field \in IllTypedKeys(contents.json)
           /\ decoded.error.actual = contents.json[decoded.error.field]
           /\ decoded.value.partial = DefaultPartial

\* the document without the keys ks
Without(json, ks) == [k \in DOMAIN json \ ks |-> json[k]]

DeprecationsOf(diagnostics) == {d \in diagnostics : d[1] = "deprecated"}
UnrecognizedOf(diagnostics) == {d[2] : d \in {e \in diagnostics : e[1] = "unrecognized"}}

\* C11: a document with the deprecated key do_not_check decodes whenever the
\* rest of it does; exactly one deprecation diagnostic is printed and it
\* names ignore_all_errors; ignore_all_errors and the other decoded fields
\* are what the document without the key gives; do_not_check is not reported
\* as unrecognized.
C11_DeprecatedKeyOnlyWarns ==
    (pc = "decoded" /\ ~contents.malformed /\ "do_not_check" \in DOMAIN contents.json)
        => LET rest == from_string(Document(Without(contents.json, {"do_not_check"})))
           IN  /\ decoded.ok = rest.ok
               /\ decoded.error = rest.error
               /\ DOMAIN contents.json = {"do_not_check"} => decoded.ok
               /\ decoded.ok
                    => /\ DeprecationsOf(decoded.value.diagnostics)
                            = {<<"deprecated", "do_not_check", "ignore_all_errors">>}
                       /\ "do_not_check" \notin UnrecognizedOf(decoded.value.diagnostics)
                       /\ decoded.value.ignore_all_errors = rest.value.ignore_all_errors
                       /\ decoded.value.partial = rest.value.partial

C11_Witness ==
    /\ pc = "decoded"
    /\ DOMAIN contents.json = {"do_not_check", "ignore_all_errors"}
    /\ contents.json["do_not_check"] = JList(<<Item("str", <<"x">>, 0, FALSE)>>)
    /\ decoded.ok
    /\ decoded.value.diagnostics = {<<"deprecated", "do_not_check", "ignore_all_errors">>}

----------------------------------------------------------------------------
(* Properties of check_command *)

\* the text of a JSON array of n diagnostics
RECURSIVE Diagnostics_n(_)
Diagnostics_n(n) ==
    IF n = 0 THEN <<>>
    ELSE IF n = 1 THEN <<"e">>
    ELSE Diagnostics_n(n - 1) \o <<",", "e">>
ArrayText(n) == <<"[">> \o Diagnostics_n(n) \o <<"]">>

IsArrayText(text) == \E n \in 0..MaxOutput : text = ArrayText(n)

\* C13: check_command spawns one child, interprets output only after the
\* child has exited and then all of it, and ends with: command failure for
\* a non-zero status, without parsing; success for status 0 and an empty
\* array; check failure for status 0 and a non-empty array of diagnostics;
\* a fatal failure, never success, for status 0 and any other output.
C13_CheckCommandOutcome ==
    /\ invocations <= 1
    /\ IsSome(output)
        => /\ child.state = "exited"
           /\ Unwrap(output) = checker
    /\ IsSome(parsed) => (IsSome(output) /\ Unwrap(parsed) = checker.stdout)
    /\ (pc = "check_done" /\ IsSome(output))
        => /\ invocations = 1
           /\ checker.status # 0
                => (check_returned = CheckError("Command failed") /\ IsNone(parsed))
           /\ (checker.status = 0 /\ checker.stdout = ArrayText(0))
                => check_returned = CheckOk
           /\ (checker.status = 0 /\ IsArrayText(checker.stdout)
                                  /\ checker.stdout # ArrayText(0))
                => check_returned = CheckError("Had some type errors")
           /\ (checker.status = 0 /\ ~IsArrayText(checker.stdout))
                => check_returned.outcome = "panic"
    /\ check_returned = CheckOk
        => (checker.status = 0 /\ checker.stdout = ArrayText(0))

C13_Witness ==
    /\ pc = "check_done"
    /\ checker.status = 0
    /\ checker.stdout = ArrayText(2)
    /\ child = [state |-> "exited", written |-> ArrayText(2)]
    /\ check_returned = CheckError("Had some type errors")

----------------------------------------------------------------------------
(* Properties of path expansion *)

\* the canonical form of an absolute path, if it exists
CanonicalAbsolute(q) ==
    IF PathExists(q) THEN Some(Normalize(RootDir, Tail(q))) ELSE None

\* C14: expand_relative_path(root, path) is canonicalize(path) for an
\* absolute path and canonicalize(root joined with path) for a relative
\* one, and is absolute.
C14_ExpandsAgainstRoot ==
    pc = "path_expanded"
        => /\ expand_result =
                CanonicalAbsolute(IF IsAbsolute(expand_input) THEN expand_input
                                  ELSE expand_root \o expand_input)
           /\ IsSome(expand_result) => IsAbsolute(Unwrap(expand_result))

\* C15: expanding the result of an expansion again, against any root, gives
\* the same result, for a path and for a partial configuration; the fields
\* that hold no path are returned as they were.
C15_ExpansionIdempotent ==
    /\ pc = "path_re_expanded" => re_expand_result = expand_result
    /\ pc = "partial_re_expanded" => partial_re_expanded = partial_expanded
    /\ (pc \in {"partial_expanded", "partial_re_expanded"} /\ partial_expanded.ok)
        => \A f \in {"buck_mode", "number_of_workers", "strict", "targets"} :
                partial_expanded.value[f] = expand_partial[f]

C15_Witness ==
    /\ pc = "partial_re_expanded"
    /\ expand_partial.binary = Some(<<"..", "bin">>)
    /\ expand_partial.source_directories = Some(<<<<"//", "gen">>, <<"..", "bin">>>>)
    /\ cwd = <<"/", "a", "b">>
    /\ expand_root = <<"/", "a">>
    /\ second_root = RootDir
    /\ partial_re_expanded.ok
    /\ partial_re_expanded.value.binary = Some(<<"/", "a", "bin">>)

\* C16: expand_global_root(path, global_root) resolves what follows the
\* marker // against global_root, and returns a path without the marker
\* unchanged.
C16_GlobalRootExpansion ==
    pc = "global_root_expanded"
        => global_expanded =
                IF StartsWithGlobalMarker(expand_input)
                THEN CanonicalAbsolute(expand_root \o Tail(expand_input))
                ELSE Some(expand_input)

----------------------------------------------------------------------------
(* Properties of the command-line layer *)

\* the non-empty list of targets written in a configuration file
FileTargets(read) ==
    IF /\ read.readable
       /\ ~read.text.malformed
       /\ "targets" \in DOMAIN read.text.json
       /\ read.text.json["targets"].type = "list"
       /\ AllStrings(read.text.json["targets"].items)
       /\ Len(read.text.json["targets"].items) > 0
    THEN Some([i \in 1..Len(read.text.json["targets"].items) |->
                read.text.json["targets"].items[i].s])
    ELSE None

\* the targets the files give: the local file's if it has some, else the
\* global file's
InheritedTargets ==
    IF LocalRootFound /\ IsSome(FileTargets(local_contents))
    THEN FileTargets(local_contents)
    ELSE IF IsSome(found_root) THEN FileTargets(global_contents)
    ELSE None

\* C17: from_command_arguments gives targets None for an empty list and
\* Some(list) otherwise, and a Configuration returned for a command line
\* without targets has the non-empty targets of the configuration files.
C17_EmptyTargetsInherit ==
    /\ from_command_arguments(arguments).targets =
            (IF arguments.targets = <<>> THEN None ELSE Some(arguments.targets))
    /\ (pc = "done" /\ returned.ok /\ arguments.targets = <<>>
                    /\ IsSome(InheritedTargets))
        => returned.value.targets = InheritedTargets

\* the value of field f the file layers give
FileLayersValue(f) ==
    IF LocalRootFound /\ IsSome(LocalLayer[f]) THEN LocalLayer[f]
    ELSE GlobalLayer[f]

\* C18: from_command_arguments gives None for every field whose flag was
\* not given, so that a Configuration returned keeps the buck_mode and the
\* source_directories of the configuration files when their flags are absent.
C18_AbsentFlagsAreNone ==
    /\ \A f \in OptionFields :
            ~CommandLineGave(f) => IsNone(from_command_arguments(arguments)[f])
    /\ (pc = "done" /\ returned.ok /\ IsSome(found_root))
        => \A f \in {"buck_mode", "source_directories"} :
                (~CommandLineGave(f) /\ IsSome(FileLayersValue(f)))
                    => returned.value[f] = FileLayersValue(f)

\* C19: in a Configuration returned no source directory begins with the
\* marker //; an entry the command line gave with the marker is the rest of
\* it resolved against the project root.
C19_NoGlobalMarkerLeft ==
    (pc = "done" /\ returned.ok /\ IsSome(returned.value.source_directories))
        => LET directories == Unwrap(returned.value.source_directories)
           IN  /\ \A i \in 1..Len(directories) :
                    ~StartsWithGlobalMarker(directories[i])
               /\ CommandLineGave("source_directories")
                    => \A i \in 1..Len(arguments.source_directories) :
                        StartsWithGlobalMarker(arguments.source_directories[i])
                            => directories[i] =
                                 returned.value.project_root
                                    \o Tail(arguments.source_directories[i])

====
